---- MODULE Spec2Model ----
(***************************************************************************)
(* A model of the DPLL engine of satir (src/src/satir/dpll.rs) together    *)
(* with the literal algebra (src/src/satir/core.rs) and the indexed vector *)
(* (src/src/satir/tagged.rs) it is built on, and of the DIMACS reader      *)
(* (src/src/satir/parse/dimacs.rs) that produces its input.                *)
(*                                                                         *)
(* Conventions.  Rust vectors and slices are 0-based, TLA+ sequences are   *)
(* 1-based: element i of a Rust vector is element i+1 of the sequence that *)
(* models it.  The operators Lit, ClauseAt and VecAt do the shift, so that *)
(* Lit(cl, 0) and Lit(cl, 1) are the code's cl[0] and cl[1].  A Variable,  *)
(* a Literal, a Value and a ClauseId are the integers the code wraps.      *)
(*                                                                         *)
(* The last part models Clause::propagate of the CDCL engine               *)
(* (src/src/cdcl/constraint/clause.rs) and the environment it acts on.     *)
(*                                                                         *)
(* Seven specifications are defined over the same variables:               *)
(*   Spec        solve() as written, from an arbitrary bounded clause list *)
(*   EngineSpec  the decide / propagate / backtrack loop of solve() driven *)
(*               from an Env that satisfies the documented invariants of   *)
(*               the data types (clauses of at least two literals, a watch *)
(*               index with a slot for every literal).                     *)
(*   BinarySpec  the same loop on the lists of BinaryClauses clauses of    *)
(*               two literals                                              *)
(*   TernarySpec the same loop on the lists of a clause of three literals  *)
(*               and two clauses of two                                    *)
(*   CallSpec    single calls of enqueue, of undo_last_decision and of the *)
(*               functions of core.rs and tagged.rs, on arguments drawn    *)
(*               from bounded sets                                         *)
(*   ParseSpec   single calls of parse_dimacs on the texts of bounded      *)
(*               files                                                     *)
(*   CdclSpec    single calls of Clause::propagate on bounded clauses and  *)
(*               assignments                                               *)
(***************************************************************************)
EXTENDS Integers, Sequences, FiniteSets, TLC

(***************************************************************************)
(* Bounds of the model.                                                    *)
(***************************************************************************)
\* Variables of an input to solve() are 0 .. next_var-1 with next_var <= NumVars.
NumVars == 2
\* The longest clause of a clause list.
MaxLen == 3
\* The largest number of clauses, and of literals in all, of an input to solve().
MaxInputClauses == 3
MaxInputLits == 4
\* The engine's variables, and the largest number of clauses, and of literals
\* in all, of its clause database.
EngineVars == 2
EngineMaxClauses == 3
EngineMaxLits == 5
\* The engine stops taking steps once this many watchers have been visited
\* (no run within the bounds gets that far: CapNotReached).
MaxPropagations == 16

(***************************************************************************)
(* core.rs: the literal algebra.                                           *)
(***************************************************************************)
LIFTED_FALSE == 1
LIFTED_TRUE == 0
UNASSIGNED == 2

\* v ^ b for a Value v (an i8 in 0..3) and a bit b
XorBit(v, b) == IF b = 0 THEN v ELSE IF v % 2 = 0 THEN v + 1 ELSE v - 1

to_positive_literal(v) == 2 * v
to_negative_literal(v) == 2 * v + 1
variable(l) == l \div 2
\* core.rs:53-56: lnum & 1 == 0
is_negated(l) == (l % 2) = 0

\* negate setting the polarity bit instead of flipping it
negate_SetBit(l) == IF l % 2 = 0 THEN l + 1 ELSE l

negate(l) == XorBit(l, 1)
\* under_value leaving the polarity of the literal out
under_value_NoPolarity(l, v) == v

under_value(l, v) == XorBit(v, l % 2)
satisfy(l) == l % 2
is_unassigned(v) == v >= UNASSIGNED

(***************************************************************************)
(* tagged.rs: the indexed vector.  Reading or writing index i of a vector  *)
(* of length n panics unless i < n.                                        *)
(***************************************************************************)
InBounds(vec, i) == i >= 0 /\ i < Len(vec)
VecAt(vec, i) == vec[i + 1]
VecSet(vec, i, t) == [vec EXCEPT ![i + 1] = t]
ensure_index(vec, i, t) ==
    IF Len(vec) < i THEN vec \o [k \in 1..(i - Len(vec)) |-> t] ELSE vec

(***************************************************************************)
(* clause.rs: a clause is its header's id and its literals (lit_count is   *)
(* the number of literals, dimacs.rs:218).                                 *)
(***************************************************************************)
lit_count(cl) == Len(cl.lits)
Lit(cl, i) == cl.lits[i + 1]
identifier(cl) == cl.id
ClauseAt(problem, id) == problem[id + 1]

(***************************************************************************)
(* dpll.rs: preprocess.  `retain` visits the clauses in order and keeps    *)
(* those for which the closure returns true.  The closure reads            *)
(* pr.initial_assignment and pushes to pr.conflict_vars; no statement of   *)
(* it writes pr.initial_assignment.                                        *)
(***************************************************************************)
RECURSIVE RetainFrom(_, _)
RetainFrom(pr, todo) ==
    IF todo = <<>> \/ pr.panic THEN pr
    ELSE LET cl == Head(todo)
             rest == Tail(todo)
         IN IF lit_count(cl) = 0 THEN RetainFrom(pr, rest)
            ELSE IF lit_count(cl) = 1 THEN
                LET single_lit == Lit(cl, 0) IN
                IF ~InBounds(pr.initial_assignment, variable(single_lit))
                THEN [pr EXCEPT !.panic = TRUE]
                ELSE LET current_assign ==
                             VecAt(pr.initial_assignment, variable(single_lit))
                     IN IF current_assign = UNASSIGNED THEN RetainFrom(pr, rest)
                        ELSE IF satisfy(single_lit) = current_assign
                        THEN RetainFrom(pr, rest)
                        ELSE RetainFrom(
                               [pr EXCEPT
                                 !.conflict_vars = Append(@, variable(single_lit)),
                                 !.clauses = Append(@, cl)], rest)
            ELSE RetainFrom([pr EXCEPT !.clauses = Append(@, cl)], rest)

\* preprocess without the removal of the singleton clauses
preprocess_KeepUnits(cls, nv) ==
    [initial_assignment |-> ensure_index(<<>>, nv, UNASSIGNED),
     conflict_vars |-> <<>>,
     clauses |-> SelectSeq(cls, LAMBDA cl : lit_count(cl) # 0),
     panic |-> FALSE]

preprocess(cls, nv) ==
    RetainFrom([initial_assignment |-> ensure_index(<<>>, nv, UNASSIGNED),
                conflict_vars |-> <<>>,
                clauses |-> <<>>,
                panic |-> FALSE], cls)

(***************************************************************************)
(* dpll.rs: the variable order.  The priority queue is the set of its      *)
(* (variable, priority) entries, one per variable; pushing a variable that *)
(* is present replaces its priority; pop removes an entry of greatest      *)
(* priority (which one, among equals, is the queue's choice).              *)
(***************************************************************************)
QueueVars(q) == {e.var : e \in q}
QueuePush(q, v, p) == {e \in q : e.var # v} \cup {[var |-> v, pri |-> p]}
QueueMax(q) == {e \in q : \A f \in q : f.pri <= e.pri}

RECURSIVE ClauseVars(_)
ClauseVars(cls) ==
    IF cls = <<>> THEN <<>>
    ELSE [i \in 1..lit_count(Head(cls)) |-> variable(Lit(Head(cls), i - 1))]
         \o ClauseVars(Tail(cls))

RECURSIVE OrderFrom(_, _, _)
OrderFrom(vs, q, priority) ==
    IF vs = <<>> THEN q
    ELSE IF Head(vs) \in QueueVars(q) THEN OrderFrom(Tail(vs), q, priority)
    ELSE OrderFrom(Tail(vs), QueuePush(q, Head(vs), priority), priority + 1)

initial_variable_order(cls) == OrderFrom(ClauseVars(cls), {}, 0)

(***************************************************************************)
(* dpll.rs: intern_clauses and initialize_watchlist.                       *)
(***************************************************************************)
intern_clauses(cls) == [k \in 1..Len(cls) |-> [cls[k] EXCEPT !.id = k - 1]]

\* one iteration of the loop of initialize_watchlist
WatchClause(wi, cl) ==
    IF wi.panic THEN wi
    ELSE IF lit_count(cl) < 2 THEN [wi EXCEPT !.panic = TRUE]
    ELSE LET sized == ensure_index(
                        ensure_index(wi.vec, Lit(cl, 0), {}), Lit(cl, 1), {})
         IN IF ~InBounds(sized, Lit(cl, 0)) \/ ~InBounds(sized, Lit(cl, 1))
            THEN [vec |-> sized, panic |-> TRUE]
            ELSE LET first == VecSet(sized, Lit(cl, 0),
                                     VecAt(sized, Lit(cl, 0)) \cup {identifier(cl)})
                 IN [vec |-> VecSet(first, Lit(cl, 1),
                                    VecAt(first, Lit(cl, 1)) \cup {identifier(cl)}),
                     panic |-> FALSE]

RECURSIVE WatchFrom(_, _)
WatchFrom(wi, todo) ==
    IF todo = <<>> THEN wi ELSE WatchFrom(WatchClause(wi, Head(todo)), Tail(todo))

initialize_watchlist(cls, watch_index) ==
    WatchFrom([vec |-> watch_index, panic |-> FALSE], cls)

empty_statistics == [conflicts |-> 0, decisions |-> 0, propagations |-> 0]

(***************************************************************************)
(* dpll.rs: the engine's functions on an Env record                        *)
(*   [problem, decision_stack, assignment, watchlist, variable_order,      *)
(*    decision_queue, statistics].                                         *)
(***************************************************************************)
value_of(env, lit) == under_value(lit, VecAt(env.assignment, variable(lit)))

\* enqueue with the push onto the trail left out
enqueue_SkipTrail(env, lit) ==
    LET val == value_of(env, lit) IN
    IF val = UNASSIGNED
    THEN [env |-> [env EXCEPT
                    !.assignment = VecSet(@, variable(lit), satisfy(lit)),
                    !.decision_queue = Append(@, lit)],
          result |-> "NoConflict"]
    ELSE IF val = LIFTED_FALSE
    THEN [env |-> env, result |-> "Conflict"]
    ELSE [env |-> env, result |-> "NoConflict"]

\* enqueue pushing a literal that is already TRUE onto the queue again
enqueue_Requeue(env, lit) ==
    LET val == value_of(env, lit) IN
    IF val = UNASSIGNED
    THEN [env |-> [env EXCEPT
                    !.decision_stack = Append(@, lit),
                    !.assignment = VecSet(@, variable(lit), satisfy(lit)),
                    !.decision_queue = Append(@, lit)],
          result |-> "NoConflict"]
    ELSE IF val = LIFTED_FALSE
    THEN [env |-> env, result |-> "Conflict"]
    ELSE [env |-> [env EXCEPT !.decision_queue = Append(@, lit)],
          result |-> "NoConflict"]

enqueue(env, lit) ==
    LET val == value_of(env, lit) IN
    IF val = UNASSIGNED
    THEN [env |-> [env EXCEPT
                    !.decision_stack = Append(@, lit),
                    !.assignment = VecSet(@, variable(lit), satisfy(lit)),
                    !.decision_queue = Append(@, lit)],
          result |-> "NoConflict"]
    ELSE IF val = LIFTED_FALSE
    THEN [env |-> env, result |-> "Conflict"]
    ELSE [env |-> env, result |-> "NoConflict"]

\* What one call of enqueue did: the literal, its variable's value before and
\* after, the result, and whether the trail and the queue grew by the literal.
EnqueueRecord(env, lit, r) ==
    [lit |-> lit,
     before |-> VecAt(env.assignment, variable(lit)),
     after |-> VecAt(r.env.assignment, variable(lit)),
     result |-> r.result,
     on_trail |-> r.env.decision_stack = Append(env.decision_stack, lit),
     on_queue |-> r.env.decision_queue = Append(env.decision_queue, lit),
     clause |-> -1,
     others_false |-> FALSE]

RECURSIVE SortedSeq(_)
\* the iteration order of a BTreeSet<ClauseId>
SortedSeq(S) ==
    IF S = {} THEN <<>>
    ELSE LET m == CHOOSE x \in S : \A y \in S : x <= y
         IN <<m>> \o SortedSeq(S \ {m})

SeqRange(sq) == {sq[i] : i \in 1..Len(sq)}

WatchInsert(env, lit, id) ==
    [env EXCEPT !.watchlist = VecSet(@, lit, VecAt(@, lit) \cup {id})]

\* dpll.rs:172-175
Normalize(cl, false_lit) ==
    IF Lit(cl, 1) # false_lit
    THEN [cl EXCEPT !.lits = [@ EXCEPT ![1] = Lit(cl, 1), ![2] = false_lit]]
    ELSE cl

\* dpll.rs:189-192: the positions 2 .. lit_count-1 whose literal is not FALSE
Candidates(env, cl) ==
    {j \in 2..(lit_count(cl) - 1) : value_of(env, Lit(cl, j)) # LIFTED_FALSE}

\* dpll.rs:194-196
SwapWatch(cl, j) ==
    [cl EXCEPT !.lits = [@ EXCEPT ![2] = Lit(cl, j), ![j + 1] = Lit(cl, 1)]]

\* dpll.rs:202: the key under which a clause that found a new watch is
\* inserted into the watch index
NewWatchKey(cl, false_lit) == false_lit

\* the conflict exit as it would be if it left the unvisited watchers out
ConflictExit_DropRest(env, false_lit, id, rest) ==
    [env EXCEPT
       !.watchlist = VecSet(@, false_lit, VecAt(@, false_lit) \cup {id}),
       !.statistics.conflicts = @ + 1,
       !.decision_queue = <<>>]

\* dpll.rs:223-230 and 238-245: the conflict exits
ConflictExit(env, false_lit, id, rest) ==
    [env EXCEPT
       !.watchlist = VecSet(@, false_lit,
                            VecAt(@, false_lit) \cup {id} \cup SeqRange(rest)),
       !.statistics.conflicts = @ + 1,
       !.decision_queue = <<>>]

\* dpll.rs:231-247: a unit clause whose enqueue returned NoConflict
UnitExit(env, false_lit, id) == env

RECURSIVE PropagateFrom(_, _, _, _)
\* dpll.rs:169-250: the loop over the watchers moved out of watchlist[false_lit];
\* `todo` holds the watchers not yet visited, `log` the calls of enqueue so far
PropagateFrom(env, false_lit, todo, log) ==
    IF todo = <<>> THEN [env |-> env, result |-> "NoConflict", log |-> log]
    ELSE
    LET idx == Head(todo)
        rest == Tail(todo)
        cl == Normalize(ClauseAt(env.problem, idx), false_lit)
        env1 == [env EXCEPT !.statistics.propagations = @ + 1,
                            !.problem = [@ EXCEPT ![idx + 1] = cl]]
    IN
    IF value_of(env1, Lit(cl, 0)) = LIFTED_TRUE
    THEN PropagateFrom(WatchInsert(env1, false_lit, identifier(cl)),
                       false_lit, rest, log)
    ELSE IF Candidates(env1, cl) # {}
    THEN LET j == CHOOSE j \in Candidates(env1, cl) :
                        \A k \in Candidates(env1, cl) : j <= k
             moved == SwapWatch(cl, j)
             env2 == [env1 EXCEPT !.problem = [@ EXCEPT ![idx + 1] = moved]]
         IN PropagateFrom(
              WatchInsert(env2, NewWatchKey(moved, false_lit), identifier(moved)),
              false_lit, rest, log)
    ELSE IF value_of(env1, Lit(cl, 0)) = LIFTED_FALSE
    THEN [env |-> ConflictExit(env1, false_lit, identifier(cl), rest),
          result |-> "Conflict", log |-> log]
    ELSE LET enq_lit == Lit(cl, 0)
             r == enqueue(env1, enq_lit)
             rec == [EnqueueRecord(env1, enq_lit, r) EXCEPT
                       !.clause = identifier(cl),
                       !.others_false =
                          \A k \in 1..(lit_count(cl) - 1) :
                             value_of(env1, Lit(cl, k)) = LIFTED_FALSE]
         IN IF r.result = "Conflict"
            THEN [env |-> ConflictExit(r.env, false_lit, identifier(cl), rest),
                  result |-> "Conflict", log |-> Append(log, rec)]
            ELSE PropagateFrom(UnitExit(r.env, false_lit, identifier(cl)),
                               false_lit, rest, Append(log, rec))

\* dpll.rs:151-251.  Indexing watchlist[false_lit] panics when the watch index
\* has no slot for false_lit.
propagate_units(env, lit) ==
    LET false_lit == negate(lit) IN
    IF ~InBounds(env.watchlist, false_lit)
    THEN [env |-> env, result |-> "Panic", log |-> <<>>]
    ELSE PropagateFrom([env EXCEPT !.watchlist = VecSet(@, false_lit, {})],
                       false_lit,
                       SortedSeq(VecAt(env.watchlist, false_lit)),
                       <<>>)

\* the scan of the decision queue yielding its first literal, assigned or not
QueueScan_NoFilter(env, dq) ==
    IF dq = <<>> THEN [found |-> FALSE, lit |-> -1, decision_queue |-> dq]
    ELSE [found |-> TRUE, lit |-> Head(dq), decision_queue |-> Tail(dq)]

\* dpll.rs:260-264: the literals of the decision queue are popped until one
\* whose variable is UNASSIGNED is found
RECURSIVE QueueScan(_, _)
QueueScan(env, dq) ==
    IF dq = <<>> THEN [found |-> FALSE, lit |-> -1, decision_queue |-> dq]
    ELSE IF VecAt(env.assignment, variable(Head(dq))) = UNASSIGNED
    THEN [found |-> TRUE, lit |-> Head(dq), decision_queue |-> Tail(dq)]
    ELSE QueueScan(env, Tail(dq))

\* dpll.rs:270-281: the outcomes of popping the variable order until an
\* UNASSIGNED variable is found or the order is empty
RECURSIVE OrderScan(_, _)
OrderScan(env, q) ==
    IF q = {} THEN {[found |-> FALSE, lit |-> -1, variable_order |-> q]}
    ELSE UNION {
           IF VecAt(env.assignment, e.var) = UNASSIGNED
           THEN {[found |-> TRUE, lit |-> to_positive_literal(e.var),
                  variable_order |-> q \ {e}]}
           ELSE OrderScan(env, q \ {e})
           : e \in QueueMax(q)}

\* dpll.rs:257-282: the set of (found, lit, env) outcomes of next_decision
next_decision(env) ==
    LET s == QueueScan(env, env.decision_queue) IN
    IF s.found
    THEN {[found |-> TRUE, lit |-> s.lit,
           env |-> [env EXCEPT !.decision_queue = s.decision_queue]]}
    ELSE {[found |-> o.found, lit |-> o.lit,
           env |-> [env EXCEPT !.decision_queue = <<>>,
                               !.variable_order = o.variable_order]]
          : o \in OrderScan(env, env.variable_order)}

\* undo_last_decision as it would be if it also emptied the decision queue
undo_last_decision_ClearQueue(env) ==
    IF env.decision_stack = <<>> THEN env
    ELSE LET l == env.decision_stack[Len(env.decision_stack)] IN
         [env EXCEPT
            !.decision_stack = SubSeq(@, 1, Len(@) - 1),
            !.assignment = VecSet(@, variable(l), UNASSIGNED),
            !.variable_order = QueuePush(@, variable(l), 0),
            !.decision_queue = <<>>]

\* dpll.rs:288-297
undo_last_decision(env) ==
    IF env.decision_stack = <<>> THEN env
    ELSE LET l == env.decision_stack[Len(env.decision_stack)] IN
         [env EXCEPT
            !.decision_stack = SubSeq(@, 1, Len(@) - 1),
            !.assignment = VecSet(@, variable(l), UNASSIGNED),
            !.variable_order = QueuePush(@, variable(l), 0)]

(***************************************************************************)
(* The state.                                                              *)
(*   pc           where solve() is: "start", "preprocessed", "loop" (about *)
(*                to call next_decision), "decided" (about to call         *)
(*                propagate_units(next_lit)), "propagated" (it returned    *)
(*                last_result), "sat" / "unsat" (returned), "panic"        *)
(*   input        the clause list solve() was called with (never changed)  *)
(*   next_var     solve()'s second argument                                *)
(*   clauses      the local `clauses`, which preprocess mutates            *)
(*   pp_result    the PreprocessResult                                     *)
(*   watch_index  the local `watch_index` of solve()                       *)
(*   env          the Env                                                  *)
(*   next_lit     the literal next_decision yielded                        *)
(*   last_result  what the last call of propagate_units returned           *)
(*   enq_log      the calls of enqueue made by that call, in order         *)
(*   level        history: the decisions open, counted along the run as    *)
(*                the spec counts them (a literal taken from the variable  *)
(*                order opens a level, a literal taken from the queue does *)
(*                not, a backtrack closes one); the code keeps no such     *)
(*                count                                                    *)
(*   call, ret    a single call of one function of core.rs, tagged.rs or   *)
(*                dpll.rs (CallSpec) or of parse_dimacs (ParseSpec): its   *)
(*                name and arguments, its result                           *)
(***************************************************************************)
VARIABLES pc, input, next_var, clauses, pp_result, watch_index, env,
          next_lit, last_result, enq_log, level, call, ret

vars == <<pc, input, next_var, clauses, pp_result, watch_index, env,
          next_lit, last_result, enq_log, level, call, ret>>

Literals(nv) == 0..(2 * nv - 1)

SeqsUpTo(S, lo, hi) == UNION {[1..k -> S] : k \in lo..hi}

SeqSum(sq) ==
    LET RECURSIVE Sum(_)
        Sum(k) == IF k = 0 THEN 0 ELSE sq[k] + Sum(k - 1)
    IN Sum(Len(sq))

\* the clause lengths of the clause lists of at most maxClauses clauses, each
\* of minLen .. MaxLen literals, and of at most maxLits literals in all
Shapes(minLen, maxClauses, maxLits) ==
    {sh \in SeqsUpTo(minLen..MaxLen, 0, maxClauses) : SeqSum(sh) <= maxLits}

\* the clause list of shape sh whose literals, in order, are flat; as
\* parse_dimacs builds it, the k-th clause has id k-1
Split(flat, sh) ==
    [k \in 1..Len(sh) |->
        [id |-> k - 1,
         lits |-> SubSeq(flat, SeqSum(SubSeq(sh, 1, k - 1)) + 1,
                               SeqSum(SubSeq(sh, 1, k)))]]

NoEnv ==
    [problem |-> <<>>, decision_stack |-> <<>>, assignment |-> <<>>,
     watchlist |-> <<>>, variable_order |-> {}, decision_queue |-> <<>>,
     statistics |-> empty_statistics]

NoResult == [initial_assignment |-> <<>>, conflict_vars |-> <<>>]

NoCall == [op |-> "none"]

NoRet == [done |-> FALSE]

Init ==
    /\ pc = "start"
    /\ next_var \in 0..NumVars
    /\ \E sh \in Shapes(0, MaxInputClauses, MaxInputLits) :
          \E flat \in [1..SeqSum(sh) -> Literals(next_var)] :
             input = Split(flat, sh)
    /\ clauses = input
    /\ pp_result = NoResult
    /\ watch_index = <<>>
    /\ env = NoEnv
    /\ next_lit = -1
    /\ last_result = "None"
    /\ enq_log = <<>>
    /\ level = 0
    /\ call = NoCall
    /\ ret = NoRet

\* dpll.rs:367-370
Preprocess ==
    /\ pc = "start"
    /\ LET pr == preprocess(clauses, next_var) IN
       /\ clauses' = pr.clauses
       /\ pp_result' = [initial_assignment |-> pr.initial_assignment,
                        conflict_vars |-> pr.conflict_vars]
       /\ pc' = IF pr.panic THEN "panic"
                ELSE IF Len(pr.conflict_vars) > 0 THEN "unsat"
                ELSE "preprocessed"
    /\ UNCHANGED <<input, next_var, watch_index, env, next_lit, last_result,
                   enq_log, level, call, ret>>

\* dpll.rs:385: the watch index the Env is given
EnvWatchlist(built) == <<>>

\* dpll.rs:373-389
Setup ==
    /\ pc = "preprocessed"
    /\ LET init_var_order == initial_variable_order(clauses)
           numbered_clauses == intern_clauses(clauses)
           wi == initialize_watchlist(numbered_clauses, <<>>)
       IN /\ watch_index' = wi.vec
          /\ IF wi.panic
             THEN pc' = "panic" /\ env' = env
             ELSE /\ pc' = "loop"
                  /\ env' = [problem |-> numbered_clauses,
                             decision_stack |-> <<>>,
                             assignment |-> pp_result.initial_assignment,
                             watchlist |-> EnvWatchlist(wi.vec),
                             variable_order |-> init_var_order,
                             decision_queue |-> <<>>,
                             statistics |-> empty_statistics]
    /\ UNCHANGED <<input, next_var, clauses, pp_result, next_lit, last_result,
                   enq_log, level, call, ret>>

\* dpll.rs:394 (and 409 when next_decision yields None)
NextDecisionStep ==
    /\ pc = "loop"
    /\ \E o \in next_decision(env) :
          /\ env' = o.env
          /\ next_lit' = o.lit
          /\ pc' = IF o.found THEN "decided" ELSE "sat"
          /\ level' = IF o.found /\ ~QueueScan(env, env.decision_queue).found
                      THEN level + 1 ELSE level
    /\ UNCHANGED <<input, next_var, clauses, pp_result, watch_index,
                   last_result, enq_log, call, ret>>

\* dpll.rs:395
PropagateStep ==
    /\ pc = "decided"
    /\ env.statistics.propagations < MaxPropagations
    /\ LET r == propagate_units(env, next_lit) IN
       /\ env' = r.env
       /\ last_result' = r.result
       /\ enq_log' = r.log
       /\ pc' = IF r.result = "Panic" THEN "panic" ELSE "propagated"
    /\ UNCHANGED <<input, next_var, clauses, pp_result, watch_index, next_lit,
                   level, call, ret>>

\* dpll.rs:396-399
ContinueStep ==
    /\ pc = "propagated"
    /\ last_result = "NoConflict"
    /\ pc' = "loop"
    /\ UNCHANGED <<input, next_var, clauses, pp_result, watch_index, env,
                   next_lit, last_result, enq_log, level, call, ret>>

\* dpll.rs:400-404
BacktrackStep ==
    /\ pc = "propagated"
    /\ last_result = "Conflict"
    /\ env' = [undo_last_decision(env) EXCEPT
                 !.decision_queue = Append(@, negate(next_lit))]
    /\ pc' = "loop"
    /\ level' = IF level > 0 THEN level - 1 ELSE 0
    /\ UNCHANGED <<input, next_var, clauses, pp_result, watch_index,
                   next_lit, last_result, enq_log, call, ret>>

(***************************************************************************)
(* solve() as written.  Setup panics whenever a clause is left after       *)
(* preprocessing (SolveNeverDecides below), so next_decision is reached    *)
(* only with an empty variable order and the loop body never runs.         *)
(***************************************************************************)
Next == Preprocess \/ Setup \/ NextDecisionStep

Spec == Init /\ [][Next]_vars

\* Under Spec the loop of solve() is entered only with nothing to decide.
SolveNeverDecides ==
    /\ pc \notin {"decided", "propagated"}
    /\ pc = "loop" => \A o \in next_decision(env) : ~o.found

(***************************************************************************)
(* The engine.  The loop of solve() entered with the Env that solve()      *)
(* builds for a list of clauses of two or more literals, except that the   *)
(* Env holds the watch index that initialize_watchlist fills, built on a   *)
(* vector that has a slot for both literals of every variable.             *)
(***************************************************************************)
SizedIndex(nv) == [k \in 1..(2 * nv) |-> {}]

EngineInit ==
    /\ pc = "loop"
    /\ next_var = EngineVars
    /\ \E sh \in Shapes(2, EngineMaxClauses, EngineMaxLits) :
          \E flat \in [1..SeqSum(sh) -> Literals(EngineVars)] :
             input = Split(flat, sh)
    /\ clauses = preprocess(input, next_var).clauses
    /\ pp_result = [initial_assignment |->
                        preprocess(input, next_var).initial_assignment,
                    conflict_vars |-> preprocess(input, next_var).conflict_vars]
    /\ watch_index =
          initialize_watchlist(intern_clauses(clauses), SizedIndex(next_var)).vec
    /\ env = [problem |-> intern_clauses(clauses),
              decision_stack |-> <<>>,
              assignment |-> pp_result.initial_assignment,
              watchlist |-> watch_index,
              variable_order |-> initial_variable_order(clauses),
              decision_queue |-> <<>>,
              statistics |-> empty_statistics]
    /\ next_lit = -1
    /\ last_result = "None"
    /\ enq_log = <<>>
    /\ level = 0
    /\ call = NoCall
    /\ ret = NoRet

EngineNext == NextDecisionStep \/ PropagateStep \/ ContinueStep \/ BacktrackStep

EngineSpec == EngineInit /\ [][EngineNext]_vars

(***************************************************************************)
(* The engine on the clause lists of BinaryClauses clauses of two literals *)
(* over EngineVars variables (among them the four clauses over two         *)
(* variables that no assignment satisfies), built as in EngineInit.        *)
(***************************************************************************)
BinaryClauses == 4

BinaryInit ==
    /\ pc = "loop"
    /\ next_var = EngineVars
    /\ \E flat \in [1..(2 * BinaryClauses) -> Literals(EngineVars)] :
          input = Split(flat, [k \in 1..BinaryClauses |-> 2])
    /\ clauses = preprocess(input, next_var).clauses
    /\ pp_result = [initial_assignment |->
                        preprocess(input, next_var).initial_assignment,
                    conflict_vars |-> preprocess(input, next_var).conflict_vars]
    /\ watch_index =
          initialize_watchlist(intern_clauses(clauses), SizedIndex(next_var)).vec
    /\ env = [problem |-> intern_clauses(clauses),
              decision_stack |-> <<>>,
              assignment |-> pp_result.initial_assignment,
              watchlist |-> watch_index,
              variable_order |-> initial_variable_order(clauses),
              decision_queue |-> <<>>,
              statistics |-> empty_statistics]
    /\ next_lit = -1
    /\ last_result = "None"
    /\ enq_log = <<>>
    /\ level = 0
    /\ call = NoCall
    /\ ret = NoRet

BinarySpec == BinaryInit /\ [][EngineNext]_vars

(***************************************************************************)
(* The engine on the lists of a clause of three literals followed by two   *)
(* clauses of two literals over EngineVars variables, built as in          *)
(* EngineInit: the smallest lists on which a watch moves to a third        *)
(* literal and the same literal is propagated a second time.               *)
(***************************************************************************)
TernaryShape == <<3, 2, 2>>

TernaryInit ==
    /\ pc = "loop"
    /\ next_var = EngineVars
    /\ \E flat \in [1..SeqSum(TernaryShape) -> Literals(EngineVars)] :
          input = Split(flat, TernaryShape)
    /\ clauses = preprocess(input, next_var).clauses
    /\ pp_result = [initial_assignment |->
                        preprocess(input, next_var).initial_assignment,
                    conflict_vars |-> preprocess(input, next_var).conflict_vars]
    /\ watch_index =
          initialize_watchlist(intern_clauses(clauses), SizedIndex(next_var)).vec
    /\ env = [problem |-> intern_clauses(clauses),
              decision_stack |-> <<>>,
              assignment |-> pp_result.initial_assignment,
              watchlist |-> watch_index,
              variable_order |-> initial_variable_order(clauses),
              decision_queue |-> <<>>,
              statistics |-> empty_statistics]
    /\ next_lit = -1
    /\ last_result = "None"
    /\ enq_log = <<>>
    /\ level = 0
    /\ call = NoCall
    /\ ret = NoRet

TernarySpec == TernaryInit /\ [][EngineNext]_vars

(***************************************************************************)
(* Single calls.  The state holds one call of a function (its name and its *)
(* arguments, drawn in CallInit) and, once the function has been applied,  *)
(* what it returned.  The arguments of enqueue and of undo_last_decision   *)
(* are the Envs whose assignment agrees with the trail (C8), over CallVars  *)
(* variables.                                                              *)
(***************************************************************************)
\* The variables of the arguments of a call, and the longest vector handed to
\* ensure_index.
CallVars == 2
MaxVecLen == 3

Values == {LIFTED_TRUE, LIFTED_FALSE, UNASSIGNED}

\* the sequences of at most CallVars literals of distinct variables
Trails ==
    {tr \in SeqsUpTo(Literals(CallVars), 0, CallVars) :
        \A i, j \in 1..Len(tr) : i # j => variable(tr[i]) # variable(tr[j])}

\* the assignment that the calls of enqueue that pushed tr leave (dpll.rs:127-128)
AssignmentOf(tr) ==
    [k \in 1..CallVars |->
        IF \E i \in 1..Len(tr) : variable(tr[i]) = k - 1
        THEN satisfy(tr[CHOOSE i \in 1..Len(tr) : variable(tr[i]) = k - 1])
        ELSE UNASSIGNED]

CallProblem == intern_clauses(<<[id |-> 0, lits |-> <<0, 2>>]>>)

CallEnv(tr, dq) ==
    [problem |-> CallProblem,
     decision_stack |-> tr,
     assignment |-> AssignmentOf(tr),
     watchlist |-> initialize_watchlist(CallProblem, SizedIndex(CallVars)).vec,
     variable_order |-> initial_variable_order(CallProblem),
     decision_queue |-> dq,
     statistics |-> empty_statistics]

CallInit ==
    /\ pc = "call"
    /\ next_var = CallVars
    /\ input = <<>>
    /\ clauses = <<>>
    /\ pp_result = NoResult
    /\ watch_index = <<>>
    /\ env = NoEnv
    /\ next_lit = -1
    /\ last_result = "None"
    /\ enq_log = <<>>
    /\ level = 0
    /\ ret = NoRet
    /\ \/ \E l \in Literals(CallVars), v \in Values :
             call = [op |-> "under_value", lit |-> l, v |-> v]
       \/ \E vec \in SeqsUpTo(Values, 0, MaxVecLen) :
             \E i \in 0..(MaxVecLen + 1), t \in Values :
                call = [op |-> "ensure_index", vec |-> vec, i |-> i, t |-> t]
       \/ \E tr \in Trails, dq \in SeqsUpTo(Literals(CallVars), 0, 1) :
             \E l \in Literals(CallVars) :
                call = [op |-> "enqueue", env |-> CallEnv(tr, dq), lit |-> l]
       \/ \E v \in 0..(CallVars - 1) :
             \/ call = [op |-> "to_positive_literal", v |-> v]
             \/ call = [op |-> "to_negative_literal", v |-> v]
       \/ \E l \in Literals(CallVars) :
             \/ call = [op |-> "negate", lit |-> l]
             \/ call = [op |-> "variable", lit |-> l]
             \/ call = [op |-> "is_negated", lit |-> l]
       \/ \E tr \in Trails, dq \in SeqsUpTo(Literals(CallVars), 0, 1) :
             call = [op |-> "undo_last_decision", env |-> CallEnv(tr, dq)]

CallFrame ==
    UNCHANGED <<pc, input, next_var, clauses, pp_result, watch_index, env,
                next_lit, last_result, enq_log, level, call>>

\* core.rs:63-67
CallUnderValue ==
    /\ call.op = "under_value" /\ ~ret.done
    /\ ret' = [done |-> TRUE, value |-> under_value(call.lit, call.v)]
    /\ CallFrame

\* tagged.rs:58-66
CallEnsureIndex ==
    /\ call.op = "ensure_index" /\ ~ret.done
    /\ ret' = [done |-> TRUE, value |-> ensure_index(call.vec, call.i, call.t)]
    /\ CallFrame

\* dpll.rs:122-139
CallEnqueue ==
    /\ call.op = "enqueue" /\ ~ret.done
    /\ LET r == enqueue(call.env, call.lit) IN
       ret' = [done |-> TRUE, result |-> r.result, env |-> r.env]
    /\ CallFrame

\* core.rs:36-39
CallToPositive ==
    /\ call.op = "to_positive_literal" /\ ~ret.done
    /\ ret' = [done |-> TRUE, value |-> to_positive_literal(call.v)]
    /\ CallFrame

\* core.rs:41-44
CallToNegative ==
    /\ call.op = "to_negative_literal" /\ ~ret.done
    /\ ret' = [done |-> TRUE, value |-> to_negative_literal(call.v)]
    /\ CallFrame

\* core.rs:58-61
CallNegate ==
    /\ call.op = "negate" /\ ~ret.done
    /\ ret' = [done |-> TRUE, value |-> negate(call.lit)]
    /\ CallFrame

\* core.rs:48-51
CallVariable ==
    /\ call.op = "variable" /\ ~ret.done
    /\ ret' = [done |-> TRUE, value |-> variable(call.lit)]
    /\ CallFrame

\* core.rs:53-56
CallIsNegated ==
    /\ call.op = "is_negated" /\ ~ret.done
    /\ ret' = [done |-> TRUE, value |-> is_negated(call.lit)]
    /\ CallFrame

\* dpll.rs:288-297
CallUndoLastDecision ==
    /\ call.op = "undo_last_decision" /\ ~ret.done
    /\ ret' = [done |-> TRUE, env |-> undo_last_decision(call.env)]
    /\ CallFrame

CallNext ==
    \/ CallUnderValue \/ CallEnsureIndex \/ CallEnqueue
    \/ CallToPositive \/ CallToNegative \/ CallNegate \/ CallVariable
    \/ CallUndoLastDecision \/ CallIsNegated

CallSpec == CallInit /\ [][CallNext]_vars

(***************************************************************************)
(* The DIMACS reader (parse/dimacs.rs).  A text is a sequence of           *)
(* characters, each a one-character string; a parser applied to the text s *)
(* at position i answers [ok, pos, ...]: whether it matched and where the  *)
(* rest of the text starts.  The combinators are those of the combine      *)
(* crate: a sequence of parsers hands the result of each to the next (the  *)
(* operators named Then... below), many and many1 stop at the first        *)
(* element that fails, and the file is accepted only if what follows is    *)
(* the end of the text.                                                    *)
(***************************************************************************)
CharAt(s, i) == IF i \in 1..Len(s) THEN s[i] ELSE "eof"

DigitValue ==
    ("0" :> 0) @@ ("1" :> 1) @@ ("2" :> 2) @@ ("3" :> 3) @@ ("4" :> 4) @@
    ("5" :> 5) @@ ("6" :> 6) @@ ("7" :> 7) @@ ("8" :> 8) @@ ("9" :> 9)

IsDigit(ch) == ch \in DOMAIN DigitValue

\* char::space(): any character that is whitespace, the line ends included
IsSpace(ch) == ch \in {" ", "\t", "\n", "\r"}

NoMatch(i) == [ok |-> FALSE, pos |-> i, val |-> 0]

\* dimacs.rs:19-25
RECURSIVE whitespace(_, _)
whitespace(s, i) == IF IsSpace(CharAt(s, i)) THEN whitespace(s, i + 1) ELSE i

\* dimacs.rs:27-32
line_end(s, i) ==
    IF CharAt(s, i) = "\n" THEN [ok |-> TRUE, pos |-> i + 1]
    ELSE IF CharAt(s, i) = "\r" /\ CharAt(s, i + 1) = "\n"
         THEN [ok |-> TRUE, pos |-> i + 2]
         ELSE [ok |-> FALSE, pos |-> i]

\* dimacs.rs:35-37, applied to the digits from position i on
RECURSIVE digits_to_u32(_, _, _)
digits_to_u32(s, i, acc) ==
    IF IsDigit(CharAt(s, i))
    THEN digits_to_u32(s, i + 1, 10 * acc + DigitValue[CharAt(s, i)])
    ELSE [ok |-> TRUE, pos |-> i, val |-> acc]

\* dimacs.rs:39-46
number(s, i) ==
    IF IsDigit(CharAt(s, i)) THEN digits_to_u32(s, i, 0) ELSE NoMatch(i)

\* dimacs.rs:64-67: the two numbers of the problem line
ThenCounts(nvar, nclause) ==
    IF nvar.ok /\ nclause.ok
    THEN [ok |-> TRUE, pos |-> nclause.pos,
          val |-> [num_variables |-> nvar.val, num_clauses |-> nclause.val]]
    ELSE NoMatch(nclause.pos)

\* dimacs.rs:64-66
ThenNumClauses(s, nvar) ==
    ThenCounts(nvar, number(s, whitespace(s, nvar.pos)))

\* dimacs.rs:62-64
ThenCnf(s, a) ==
    IF <<CharAt(s, a), CharAt(s, a + 1), CharAt(s, a + 2)>> = <<"c", "n", "f">>
    THEN ThenNumClauses(s, number(s, whitespace(s, a + 3)))
    ELSE NoMatch(a)

\* dimacs.rs:55-68
problem(s, i) ==
    IF CharAt(s, i) = "p" THEN ThenCnf(s, whitespace(s, i + 1)) ELSE NoMatch(i)

\* skip_until(line_end()): the first position from i on where a line end
\* starts; none before the end of the text is an error
RECURSIVE skip_until_line_end(_, _)
skip_until_line_end(s, i) ==
    IF line_end(s, i).ok THEN [ok |-> TRUE, pos |-> i]
    ELSE IF i > Len(s) THEN [ok |-> FALSE, pos |-> i]
         ELSE skip_until_line_end(s, i + 1)

\* dimacs.rs:71-79
comment(s, i) ==
    IF CharAt(s, i) = "c" THEN skip_until_line_end(s, i + 1)
    ELSE [ok |-> FALSE, pos |-> i]

\* dimacs.rs:89-93
PosLit(v) == [neg |-> FALSE, var |-> v]
NegLit(v) == [neg |-> TRUE, var |-> v]

\* dimacs.rs:95-100
parsed_lit_var(pl) == pl.var

\* dimacs.rs:108-111
ThenSign(neg, num) ==
    [ok |-> num.ok, pos |-> num.pos,
     val |-> IF neg THEN NegLit(num.val) ELSE PosLit(num.val)]

\* dimacs.rs:102-112
literal(s, i) ==
    IF CharAt(s, i) = "-" THEN ThenSign(TRUE, number(s, i + 1))
    ELSE ThenSign(FALSE, number(s, i))

\* repeat_until(literal().skip(whitespace()), char('0')): literals up to a
\* position where the character 0 starts (dimacs.rs:125)
RECURSIVE repeat_until(_, _, _)
RECURSIVE ThenLiterals(_, _, _)
ThenLiterals(s, l, lits) ==
    IF l.ok THEN repeat_until(s, whitespace(s, l.pos), Append(lits, l.val))
    ELSE [ok |-> FALSE, pos |-> l.pos, val |-> lits]

repeat_until(s, i, lits) ==
    IF CharAt(s, i) = "0" THEN [ok |-> TRUE, pos |-> i, val |-> lits]
    ELSE ThenLiterals(s, literal(s, i), lits)

\* .skip(char::char('0')) (dimacs.rs:125)
ThenZero(r) == [r EXCEPT !.pos = IF r.ok THEN @ + 1 ELSE @]

\* dimacs.rs:118-127
clause(s, i) == ThenZero(repeat_until(s, whitespace(s, i), <<>>))

\* many(comment().skip(line_end())) (dimacs.rs:146, 148): a comment that
\* starts and does not end in a line end fails the file
RECURSIVE comment_lines(_, _)
RECURSIVE ThenCommentLines(_, _)
ThenCommentLines(s, c) ==
    IF c.ok /\ line_end(s, c.pos).ok
    THEN comment_lines(s, line_end(s, c.pos).pos)
    ELSE [ok |-> FALSE, pos |-> c.pos]

comment_lines(s, i) ==
    IF CharAt(s, i) # "c" THEN [ok |-> TRUE, pos |-> i]
    ELSE ThenCommentLines(s, comment(s, i))

\* many(line_end()) (dimacs.rs:149)
RECURSIVE line_ends(_, _)
line_ends(s, i) ==
    IF line_end(s, i).ok THEN line_ends(s, line_end(s, i).pos) ELSE i

NoParse == [ok |-> FALSE, clauses |-> <<>>]

\* many1(clause().skip(many(line_end()))) followed by eof() (dimacs.rs:149-150):
\* the clauses are read until one fails; the file is accepted if that is at
\* the end of the text, where the clause parser fails having read nothing,
\* and one clause at least was read
RECURSIVE clauses_then_eof(_, _, _)
RECURSIVE ThenClauses(_, _, _)
ThenClauses(s, c, cs) ==
    IF c.ok THEN clauses_then_eof(s, line_ends(s, c.pos), Append(cs, c.val))
    ELSE NoParse

clauses_then_eof(s, i, cs) ==
    IF i > Len(s) THEN [ok |-> cs # <<>>, clauses |-> cs]
    ELSE ThenClauses(s, clause(s, i), cs)

\* dimacs.rs:148-150
ThenBody(s, after) ==
    IF after.ok THEN clauses_then_eof(s, after.pos, <<>>) ELSE NoParse

\* dimacs.rs:147-148
ThenProblemLine(s, decl) ==
    IF decl.ok /\ line_end(s, decl.pos).ok
    THEN ThenBody(s, comment_lines(s, line_end(s, decl.pos).pos))
    ELSE NoParse

\* dimacs.rs:146-147
ThenProblem(s, header) ==
    IF header.ok THEN ThenProblemLine(s, problem(s, header.pos)) ELSE NoParse

\* dimacs.rs:142-152
dimacs(s) == ThenProblem(s, comment_lines(s, 1))

\* dimacs.rs:155-160
to_core_lit(pl, cv) ==
    IF pl.neg THEN to_negative_literal(cv) ELSE to_positive_literal(cv)

\* intern_lit as it would be if it never looked the variable up
intern_lit_Fresh(penv, pl) ==
    [env |-> [penv EXCEPT !.next_var = @ + 1], lit |-> to_core_lit(pl, penv.next_var)]

\* dimacs.rs:168-178; var_map is a function from the variables read to the
\* internal variables
intern_lit(penv, pl) ==
    IF parsed_lit_var(pl) \in DOMAIN penv.var_map
    THEN [env |-> penv, lit |-> to_core_lit(pl, penv.var_map[parsed_lit_var(pl)])]
    ELSE [env |-> [penv EXCEPT
                      !.next_var = @ + 1,
                      !.var_map = (parsed_lit_var(pl) :> penv.next_var) @@ @],
          lit |-> to_core_lit(pl, penv.next_var)]

\* the inner loop of parse_dimacs (dimacs.rs:224-229): the literals of one
\* clause interned from the k-th on
RECURSIVE intern_lits(_, _, _, _)
RECURSIVE ThenPush(_, _, _, _)
\* dimacs.rs:227-228
ThenPush(r, parsed_clause, k, lits) ==
    intern_lits(r.env, parsed_clause, k + 1, Append(lits, r.lit))

intern_lits(penv, parsed_clause, k, lits) ==
    IF k > Len(parsed_clause) THEN [env |-> penv, lits |-> lits]
    ELSE ThenPush(intern_lit(penv, parsed_clause[k]), parsed_clause, k, lits)

\* the outer loop of parse_dimacs (dimacs.rs:214-232)
RECURSIVE intern_parsed(_, _, _, _)
RECURSIVE ThenPushClause(_, _, _, _, _)
\* dimacs.rs:216-222, 231
ThenPushClause(r, id, cs, k, interned) ==
    intern_parsed([r.env EXCEPT !.next_id = @ + 1], cs, k + 1,
                  Append(interned, [id |-> id, lits |-> r.lits]))

intern_parsed(penv, cs, k, interned) ==
    IF k > Len(cs) THEN [env |-> penv, clauses |-> interned]
    ELSE ThenPushClause(intern_lits(penv, cs[k], 1, <<>>), penv.next_id,
                        cs, k, interned)

\* dimacs.rs:234-237
ThenDIMACS(r) ==
    [ok |-> TRUE, clauses |-> r.clauses, next_var |-> r.env.next_var]

\* dimacs.rs:206-237
ThenIntern(res) ==
    IF res.ok
    THEN ThenDIMACS(intern_parsed([var_map |-> <<>>, next_var |-> 0, next_id |-> 0],
                                  res.clauses, 1, <<>>))
    ELSE [ok |-> FALSE, clauses |-> <<>>, next_var |-> 0]

\* dimacs.rs:203-238
parse_dimacs(s) == ThenIntern(dimacs(s))

(***************************************************************************)
(* Reading a text.  The files read are made of lines: an optional comment, *)
(* the problem line, then at most MaxBodyLines lines, each a comment or a  *)
(* clause of two literals written as signed decimal numbers and closed by  *)
(* 0.  The literals name the variables 5 and 10, so that the numbers read  *)
(* are neither dense nor in order.  A call holds the lines; the text that  *)
(* parse_dimacs is given is their rendering in characters.                 *)
(***************************************************************************)
MaxBodyLines == 3

LitNumbers == {5, -5, 10}

CommentLine == [comment |-> TRUE, lits |-> <<>>]

ClauseLines == {[comment |-> FALSE, lits |-> <<a, b>>] : a, b \in LitNumbers}

DigitChar == <<"0", "1", "2", "3", "4", "5", "6", "7", "8", "9">>

\* the decimal digits of a natural number
RECURSIVE Decimal(_)
Decimal(n) ==
    IF n < 10 THEN <<DigitChar[n + 1]>>
    ELSE Decimal(n \div 10) \o <<DigitChar[(n % 10) + 1]>>

Signed(n) == IF n < 0 THEN <<"-">> \o Decimal(0 - n) ELSE Decimal(n)

RECURSIVE RenderLits(_)
RenderLits(lits) ==
    IF lits = <<>> THEN <<"0", "\n">>
    ELSE Signed(Head(lits)) \o <<" ">> \o RenderLits(Tail(lits))

RenderLine(line) ==
    IF line.comment THEN <<"c", " ", "x", "\n">> ELSE RenderLits(line.lits)

ProblemLine == <<"p", " ", "c", "n", "f", " ", "2", " ", "2", "\n">>

RECURSIVE RenderLines(_)
RenderLines(lines) ==
    IF lines = <<>> THEN <<>>
    ELSE RenderLine(Head(lines)) \o RenderLines(Tail(lines))

\* the text of a file: its leading comments, the problem line, its body
TextOf(header, body) ==
    RenderLines(header) \o ProblemLine \o RenderLines(body)

ParseInit ==
    /\ pc = "parse"
    /\ next_var = 0
    /\ input = <<>>
    /\ clauses = <<>>
    /\ pp_result = NoResult
    /\ watch_index = <<>>
    /\ env = NoEnv
    /\ next_lit = -1
    /\ last_result = "None"
    /\ enq_log = <<>>
    /\ level = 0
    /\ ret = NoRet
    /\ \E header \in SeqsUpTo({CommentLine}, 0, 1) :
          \E body \in SeqsUpTo(ClauseLines \cup {CommentLine}, 1, MaxBodyLines) :
             call = [op |-> "parse_dimacs", header |-> header, body |-> body]

\* dimacs.rs:203-238
CallParseDimacs ==
    /\ call.op = "parse_dimacs" /\ ~ret.done
    /\ LET r == parse_dimacs(TextOf(call.header, call.body)) IN
       ret' = [done |-> TRUE, ok |-> r.ok, clauses |-> r.clauses,
               next_var |-> r.next_var]
    /\ CallFrame

ParseNext == CallParseDimacs

ParseSpec == ParseInit /\ [][ParseNext]_vars

(***************************************************************************)
(* Vocabulary of the properties.                                           *)
(***************************************************************************)
Returned == pc \in {"sat", "unsat"}

\* brute force: a total assignment a (TRUE / FALSE per variable) makes the
\* literal l hold
LitHolds(l, a) == IF l % 2 = 0 THEN a[variable(l)] ELSE ~a[variable(l)]

Satisfiable(cls, nv) ==
    \E a \in [0..(nv - 1) -> BOOLEAN] :
       \A k \in 1..Len(cls) : \E i \in 1..lit_count(cls[k]) : LitHolds(Lit(cls[k], i - 1), a)

\* the clause has a literal that is TRUE under the engine's assignment
ClauseTrue(e, cl) ==
    \E i \in 1..lit_count(cl) :
       /\ InBounds(e.assignment, variable(Lit(cl, i - 1)))
       /\ value_of(e, Lit(cl, i - 1)) = LIFTED_TRUE

\* every literal of the clause is FALSE under the engine's assignment
ClauseFalsified(e, cl) ==
    \A i \in 1..lit_count(cl) : value_of(e, Lit(cl, i - 1)) = LIFTED_FALSE

(***************************************************************************)
(* C1.  If solve returns Sat, the assignment the engine holds at that      *)
(* moment makes a literal TRUE in every input clause, the unit clauses     *)
(* that preprocessing removed included.  (Stated for the input clauses of  *)
(* one literal or more; a clause of no literals is C5's case.)             *)
(***************************************************************************)
C1_SatAssignmentSatisfiesInput ==
    pc = "sat" =>
       \A k \in 1..Len(input) :
          lit_count(input[k]) >= 1 => ClauseTrue(env, input[k])

(***************************************************************************)
(* C2.  For every CNF that has no satisfying assignment solve returns      *)
(* Unsat: the answer solve returns agrees with the brute-force enumeration *)
(* of all assignments.  (Stated for the inputs whose clauses all have a    *)
(* literal; a clause of no literals is C5's case.)                         *)
(***************************************************************************)
HasEmptyClause(cls) == \E k \in 1..Len(cls) : lit_count(cls[k]) = 0

C2_UnsatisfiableReturnsUnsat ==
    (Returned /\ ~HasEmptyClause(input) /\ ~Satisfiable(input, next_var))
    => pc = "unsat"

(***************************************************************************)
(* C3.  solve returns Unsat only when no total assignment of the variables *)
(* satisfies all input clauses.  Under Spec this holds of every reachable  *)
(* state, but only because none returns Unsat (NeverUnsat): preprocess     *)
(* never pushes to conflict_vars.                                          *)
(***************************************************************************)
C3_UnsatOnlyWhenUnsatisfiable ==
    pc = "unsat" => ~Satisfiable(input, next_var)

NeverUnsat == pc # "unsat" /\ pp_result.conflict_vars = <<>>

(***************************************************************************)
(* C4.  If the input holds two unit clauses (x) and (~x) over the same     *)
(* variable, preprocessing detects the conflict: solve returns Unsat from  *)
(* the preprocessing step, before any search step.                         *)
(***************************************************************************)
ConflictingUnits(cls) ==
    \E j, k \in 1..Len(cls) :
       /\ lit_count(cls[j]) = 1 /\ lit_count(cls[k]) = 1
       /\ Lit(cls[j], 0) = negate(Lit(cls[k], 0))

C4_ConflictingUnitsUnsat ==
    (pc # "start" /\ ConflictingUnits(input)) => pc = "unsat"

(***************************************************************************)
(* C5.  If the input holds a clause of zero literals, anywhere in the      *)
(* list, solve returns Unsat.                                              *)
(***************************************************************************)
C5_EmptyClauseUnsat ==
    (Returned /\ HasEmptyClause(input)) => pc = "unsat"

(***************************************************************************)
(* C6.  For every clause list whose literals range over the variables      *)
(* below next_var, solve runs to a Sat or Unsat return and never panics on *)
(* an index out of bounds.                                                 *)
(***************************************************************************)
C6_NoPanic == pc # "panic"

(***************************************************************************)
(* C7.  After every call of propagate_units, whatever it returns, every    *)
(* clause c of the database is in watchlist[c[0]] and in watchlist[c[1]]   *)
(* and in the watcher set of no other literal.                             *)
(***************************************************************************)
WatchWellFormed(e) ==
    \A k \in 1..Len(e.problem) :
       \A l \in 0..(Len(e.watchlist) - 1) :
          (identifier(e.problem[k]) \in VecAt(e.watchlist, l))
             <=> (l \in {Lit(e.problem[k], 0), Lit(e.problem[k], 1)})

TrailPositions(e, v) ==
    {i \in 1..Len(e.decision_stack) : variable(e.decision_stack[i]) = v}

C8_TrailConsistency ==
    \A v \in 0..(Len(env.assignment) - 1) :
       /\ Cardinality(TrailPositions(env, v)) <= 1
       /\ (VecAt(env.assignment, v) # UNASSIGNED)
             <=> (Cardinality(TrailPositions(env, v)) = 1)

\* propagate_units asserted a literal through enqueue, then reported a
\* conflict, and undo_last_decision has popped the trail
C8_Witness ==
    /\ pc = "loop"
    /\ last_result = "Conflict"
    /\ \E i \in 1..Len(enq_log) : enq_log[i].on_trail

LitEvaluates(e, l) ==
    LET val == VecAt(e.assignment, variable(l)) IN
    IF val = UNASSIGNED THEN "UNASSIGNED"
    ELSE IF (l % 2 = 0 /\ val = LIFTED_TRUE) \/ (l % 2 = 1 /\ val = LIFTED_FALSE)
    THEN "TRUE"
    ELSE "FALSE"

EnqueueOfAssigned ==
    /\ call.op = "enqueue"
    /\ ret.done
    /\ VecAt(call.env.assignment, variable(call.lit)) # UNASSIGNED

C11_EnqueueAssigned ==
    EnqueueOfAssigned =>
       /\ (ret.result = "Conflict") <=> (LitEvaluates(call.env, call.lit) = "FALSE")
       /\ (ret.result = "NoConflict") <=> (LitEvaluates(call.env, call.lit) = "TRUE")
       /\ ret.env.assignment = call.env.assignment
       /\ ret.env.decision_stack = call.env.decision_stack
       /\ ret.env.decision_queue = call.env.decision_queue
       /\ ret.env.watchlist = call.env.watchlist

\* enqueue has returned Conflict for a literal whose variable was assigned
C11_Witness == EnqueueOfAssigned /\ ret.result = "Conflict"

(***************************************************************************)
(* C12.  If propagation reports a conflict while the decision level is 0   *)
(* (no decision is open), solve returns Unsat; it backtracks and continues *)
(* only when the decision level is greater than 0.                         *)
(***************************************************************************)
ConflictAtLevelZero ==
    pc = "propagated" /\ last_result = "Conflict" /\ level = 0

BackAtLevelZero ==
    /\ pc = "loop"
    /\ last_result = "Conflict"
    /\ level = 0
    /\ env.statistics.conflicts = 1

EngineFairSpec == EngineSpec /\ WF_vars(EngineNext)

EngineTerminates == <>(pc \in {"sat", "unsat", "panic"})

CapNotReached ==
    pc = "decided" => env.statistics.propagations < MaxPropagations

(***************************************************************************)
(* C16.  next_decision returns the positive-polarity literal of the        *)
(* highest-priority variable of the variable order that is UNASSIGNED      *)
(* (discarding popped variables that are already assigned), and returns    *)
(* None only when no unassigned variable remains in the order.             *)
(***************************************************************************)
Unassigned(e, v) == VecAt(e.assignment, v) = UNASSIGNED

\* the entries of the variable order of e whose variable is UNASSIGNED
OpenEntries(e) == {f \in e.variable_order : Unassigned(e, f.var)}

\* the positions of the decision queue of e whose literal's variable is
\* UNASSIGNED
OpenQueued(e) ==
    {i \in 1..Len(e.decision_queue) :
        Unassigned(e, variable(e.decision_queue[i]))}

\* l is the positive literal of an UNASSIGNED variable of the order of e that
\* no UNASSIGNED variable of the order outranks
TopOfOrder(e, l) ==
    \E f \in OpenEntries(e) :
       /\ l = to_positive_literal(f.var)
       /\ \A g \in OpenEntries(e) : g.pri <= f.pri

C18_UnderValue ==
    (call.op = "under_value" /\ ret.done) =>
       /\ (ret.value = LIFTED_TRUE) <=> (call.v = satisfy(call.lit))
       /\ (ret.value = LIFTED_FALSE)
             <=> (call.v \in {LIFTED_TRUE, LIFTED_FALSE}
                     /\ call.v # satisfy(call.lit))
       /\ call.v = UNASSIGNED => ret.value = UNASSIGNED

(***************************************************************************)
(* C18 as amended.  under_value(l, v) is TRUE exactly when v equals        *)
(* satisfy(l) and FALSE exactly when v is the opposite truth value; when v *)
(* is UNASSIGNED the result is an unassigned value in the sense of         *)
(* Value::is_unassigned (a value >= UNASSIGNED): UNASSIGNED itself for a   *)
(* positive literal, UNASSIGNED + 1 for a negative one.                    *)
(***************************************************************************)
C18_UnderValueKeepsUnassigned ==
    (call.op = "under_value" /\ ret.done) =>
       /\ (ret.value = LIFTED_TRUE) <=> (call.v = satisfy(call.lit))
       /\ (ret.value = LIFTED_FALSE)
             <=> (call.v \in {LIFTED_TRUE, LIFTED_FALSE}
                     /\ call.v # satisfy(call.lit))
       /\ call.v = UNASSIGNED =>
             /\ is_unassigned(ret.value)
             /\ ret.value = UNASSIGNED + (call.lit % 2)

\* under_value has been applied to a negative literal and UNASSIGNED
C18_Witness ==
    /\ call.op = "under_value"
    /\ ret.done
    /\ call.v = UNASSIGNED
    /\ call.lit % 2 = 1

(***************************************************************************)
(* C19.  After ensure_index(i, d) the vector's length is greater than the  *)
(* offset of i, so that reading or writing index i does not panic;         *)
(* elements stored before the call are unchanged and every added slot      *)
(* equals d.                                                               *)
(***************************************************************************)
C19_EnsureIndexAddressable ==
    (call.op = "ensure_index" /\ ret.done) =>
       /\ InBounds(ret.value, call.i)
       /\ Len(ret.value) >= Len(call.vec)
       /\ \A k \in 1..Len(call.vec) : ret.value[k] = call.vec[k]
       /\ \A k \in (Len(call.vec) + 1)..Len(ret.value) : ret.value[k] = call.t

(***************************************************************************)
(* C20.  For every variable v and literal l: positive(v) has code 2v and   *)
(* negative(v) has code 2v+1; negate(negate(l)) = l; negate(positive(v)) = *)
(* negative(v); and variable(positive(v)) = variable(negative(v)) = v.     *)
(***************************************************************************)
C20_LiteralEncoding ==
    /\ (call.op = "to_positive_literal" /\ ret.done) =>
          /\ ret.value = 2 * call.v
          /\ negate(ret.value) = to_negative_literal(call.v)
          /\ variable(ret.value) = call.v
    /\ (call.op = "to_negative_literal" /\ ret.done) =>
          /\ ret.value = 2 * call.v + 1
          /\ variable(ret.value) = call.v
    /\ (call.op = "negate" /\ ret.done) => negate(ret.value) = call.lit

\* negate has been applied to a negative literal
C20_Witness ==
    /\ call.op = "negate"
    /\ ret.done
    /\ call.lit = to_negative_literal(variable(call.lit))

(***************************************************************************)
(* The reader.  The clauses that a file holds are, by the DIMACS           *)
(* convention, the lists of signed numbers of its clause lines.            *)
(***************************************************************************)
ParseReturned == call.op = "parse_dimacs" /\ ret.done

ClausesOf(body) ==
    LET cls == SelectSeq(body, LAMBDA ln : ~ln.comment)
    IN [k \in 1..Len(cls) |-> cls[k].lits]

Abs(n) == IF n < 0 THEN 0 - n ELSE n

\* the occurrences of literals in a clause list: <<clause, position>>
Occurrences(cs) ==
    UNION {{<<k, j>> : j \in 1..Len(cs[k])} : k \in 1..Len(cs)}

Before(p, o) == p[1] < o[1] \/ (p[1] = o[1] /\ p[2] < o[2])

\* the variable numbers that the file names before the occurrence o
SeenBefore(cs, o) ==
    {Abs(cs[p[1]][p[2]]) : p \in {q \in Occurrences(cs) : Before(q, o)}}

\* the first occurrence of the variable number that stands at o
FirstOccurrence(cs, o) ==
    CHOOSE p \in Occurrences(cs) :
       /\ Abs(cs[p[1]][p[2]]) = Abs(cs[o[1]][o[2]])
       /\ Abs(cs[o[1]][o[2]]) \notin SeenBefore(cs, p)

\* C21: parse_dimacs gives each variable number of the file the internal
\* variable that counts the distinct numbers read before its first
\* occurrence (0, 1, 2, ... in first-seen order), the same internal variable
\* at every occurrence of a number and distinct ones for distinct numbers,
\* keeps each literal's polarity, and returns as next_var the number of
\* distinct variable numbers read.
C21_DenseFirstSeenVariables ==
    (ParseReturned /\ ret.ok) =>
       LET cs == ClausesOf(call.body)
           numbered(o) == cs[o[1]][o[2]]
           interned(o) == ret.clauses[o[1]].lits[o[2]]
       IN /\ Len(ret.clauses) = Len(cs)
          /\ \A k \in 1..Len(cs) : Len(ret.clauses[k].lits) = Len(cs[k])
          /\ \A o \in Occurrences(cs) :
                /\ variable(interned(o)) =
                      Cardinality(SeenBefore(cs, FirstOccurrence(cs, o)))
                /\ interned(o) =
                      IF numbered(o) < 0
                      THEN to_negative_literal(variable(interned(o)))
                      ELSE to_positive_literal(variable(interned(o)))
                /\ \A p \in Occurrences(cs) :
                      (Abs(numbered(p)) = Abs(numbered(o)))
                         <=> (variable(interned(p)) = variable(interned(o)))
          /\ ret.next_var =
                Cardinality({Abs(numbered(o)) : o \in Occurrences(cs)})

\* a file read whose first variable number is the larger one and which names
\* the variable 5 in both polarities
C21_Witness ==
    /\ ParseReturned /\ ret.ok
    /\ ret.next_var = 2
    /\ Len(ret.clauses) = 2
    /\ ClausesOf(call.body) = <<<<10, -5>>, <<5, 10>>>>
    /\ ret.clauses[1].lits = <<0, 3>>
    /\ ret.clauses[2].lits = <<2, 0>>

\* a comment line stands between two clause lines
CommentBetweenClauses(body) ==
    \E i, j, k \in 1..Len(body) :
       /\ i < j /\ j < k
       /\ ~body[i].comment /\ body[j].comment /\ ~body[k].comment

\* the body without the comment lines that follow its first clause line
WithoutLaterComments(body) ==
    LET first == CHOOSE i \in 1..Len(body) :
                    ~body[i].comment /\ \A h \in 1..(i - 1) : body[h].comment
    IN SubSeq(body, 1, first)
          \o SelectSeq(SubSeq(body, first + 1, Len(body)), LAMBDA ln : ~ln.comment)

\* C22: a file with comment lines between its clauses is read, and gives the
\* clause list that the same file gives without those comment lines.
C22_CommentsBetweenClauses ==
    (ParseReturned /\ CommentBetweenClauses(call.body)) =>
       LET plain == parse_dimacs(TextOf(call.header, WithoutLaterComments(call.body)))
       IN /\ ret.ok
          /\ plain.ok
          /\ ret.clauses = plain.clauses

QueuedUnits ==
    LET q == SelectSeq(enq_log, LAMBDA r : r.on_queue)
    IN [k \in 1..Len(q) |-> q[k].lit]

Occurs(cl, l) == Cardinality({i \in 1..lit_count(cl) : Lit(cl, i - 1) = l})

\* the two clauses hold the same literals, each as many times
SameLiterals(c, d) ==
    /\ lit_count(c) = lit_count(d)
    /\ \A i \in 1..lit_count(c) : Occurs(c, Lit(c, i - 1)) = Occurs(d, Lit(c, i - 1))

Visited == env'.statistics.propagations - env.statistics.propagations

WatchersBefore == SortedSeq(VecAt(env.watchlist, negate(next_lit)))

\* C28: when propagate_units returns Conflict, the conflicting clause and
\* every watcher of ~l not yet processed are members of watchlist[~l], no
\* watcher after the conflicting one was examined or reordered, the
\* propagation queue is empty and the conflicts counter is one higher.
C28_ConflictExit ==
    [][(pc = "decided" /\ pc' = "propagated" /\ last_result' = "Conflict")
          => /\ Visited \in 1..Len(WatchersBefore)
             /\ \A k \in Visited..Len(WatchersBefore) :
                   WatchersBefore[k] \in VecAt(env'.watchlist, negate(next_lit))
             /\ \A k \in (Visited + 1)..Len(WatchersBefore) :
                   ClauseAt(env'.problem, WatchersBefore[k])
                      = ClauseAt(env.problem, WatchersBefore[k])
             /\ env'.decision_queue = <<>>
             /\ env'.statistics.conflicts = env.statistics.conflicts + 1]_vars

\* a first conflict with a watcher of ~l left unprocessed: the call asserted
\* nothing, the conflicting clause c is back under ~l with c[0] FALSE, and
\* so is a later clause d of two literals whose d[0] is unassigned, which
\* the call therefore did not visit
C28_Witness ==
    /\ pc = "propagated"
    /\ last_result = "Conflict"
    /\ enq_log = <<>>
    /\ env.decision_queue = <<>>
    /\ env.statistics.conflicts = 1
    /\ \E c, d \in VecAt(env.watchlist, negate(next_lit)) :
          /\ c < d
          /\ value_of(env, Lit(ClauseAt(env.problem, c), 0)) = LIFTED_FALSE
          /\ lit_count(ClauseAt(env.problem, d)) = 2
          /\ is_unassigned(value_of(env, Lit(ClauseAt(env.problem, d), 0)))

\* the literals that the last call of propagate_units pushed on the trail:
\* they were asserted at the decision level that the call belongs to
AssertedByCall == {enq_log[i].lit : i \in {k \in 1..Len(enq_log) : enq_log[k].on_trail}}

C30_UndoFrame ==
    (call.op = "undo_last_decision" /\ ret.done) =>
       /\ call.env.decision_stack = <<>> => ret.env = call.env
       /\ ret.env.watchlist = call.env.watchlist
       /\ ret.env.problem = call.env.problem
       /\ ret.env.decision_queue = call.env.decision_queue
       /\ ret.env.statistics = call.env.statistics

\* a call on a trail of two literals with a literal queued and clauses
\* watched, which popped the last literal
C30_Witness ==
    /\ call.op = "undo_last_decision" /\ ret.done
    /\ Len(call.env.decision_stack) = 2
    /\ call.env.decision_queue # <<>>
    /\ \E l \in Literals(CallVars) : VecAt(call.env.watchlist, l) # {}
    /\ Len(ret.env.decision_stack) = 1
    /\ ret.env # call.env

(***************************************************************************)
(* C31..C36.                                                               *)
(***************************************************************************)
\* C31: when search starts (solve() has built the Env and is about to ask
\* for the first decision), the watch index of the Env has a watcher set for
\* both literals of every variable, every clause of the store has its
\* position as id, and a clause id is a member of watchlist[c[0]] and of
\* watchlist[c[1]] and of no other watcher set.
C31_WatchlistAtSearchStart ==
    (pc = "loop" /\ env.statistics = empty_statistics /\ env.decision_stack = <<>>) =>
       /\ \A l \in Literals(next_var) : InBounds(env.watchlist, l)
       /\ \A k \in 1..Len(env.problem) : identifier(env.problem[k]) = k - 1
       /\ WatchWellFormed(env)

\* The unit clauses of the input that preprocess removed: those of which the
\* clause list it leaves holds no copy.
RemovedUnits ==
    {Lit(input[k], 0) : k \in {i \in 1..Len(input) :
        /\ lit_count(input[i]) = 1
        /\ \A j \in 1..Len(clauses) : clauses[j].lits # input[i].lits}}

\* C32: for every unit clause (l) that preprocess removes from the clause
\* list, the initial assignment it returns has assignment[var(l)] =
\* satisfy(l), and l is TRUE under the assignment of the Env when search
\* starts.
C32_RemovedUnitsAssigned ==
    pc # "start" =>
       \A l \in RemovedUnits :
          /\ InBounds(pp_result.initial_assignment, variable(l))
          /\ VecAt(pp_result.initial_assignment, variable(l)) = satisfy(l)
          /\ pc = "loop" =>
                under_value(VecAt(env.assignment, variable(l)), l) = LIFTED_TRUE

\* C33: whenever solve() proceeds past preprocessing, to intern the clauses
\* and build the watchlist, every clause of the database has at least two
\* literals (and so has every clause of the store the Env is given).
C33_AtLeastTwoLiterals ==
    pc \in {"preprocessed", "loop", "decided", "sat"} =>
       /\ \A k \in 1..Len(clauses) : lit_count(clauses[k]) >= 2
       /\ \A k \in 1..Len(env.problem) : lit_count(env.problem[k]) >= 2

\* preprocess has dropped an empty clause and a unit clause and kept a clause
C33_Witness ==
    /\ pc = "preprocessed"
    /\ \E k \in 1..Len(input) : lit_count(input[k]) = 0
    /\ \E k \in 1..Len(input) : lit_count(input[k]) = 1
    /\ Len(clauses) = 1

\* the variables pending in the decision queue of e
PendingVars(e) ==
    {variable(e.decision_queue[i]) : i \in 1..Len(e.decision_queue)}

C35_IsNegatedPolarity ==
    (call.op = "is_negated" /\ ret.done) =>
       /\ ret.value <=>
             \E v \in 0..(CallVars - 1) : call.lit = to_negative_literal(v)
       /\ (\E v \in 0..(CallVars - 1) : call.lit = to_positive_literal(v))
             => ~ret.value

(***************************************************************************)
(* src/src/cdcl: the clause constraint of the CDCL engine and the part of  *)
(* its environment that Clause::propagate reads and writes.  A clause is a *)
(* record [id, lit_count, literals]; a constraint reference in a watch     *)
(* list or in decision_reasons is the unique id of the clause; None is -1. *)
(***************************************************************************)
\* Variables of a call of Clause::propagate, and its longest clause.
CdclVars == 2
CdclMaxLits == 4

\* cdcl/core.rs:64-67
cdcl_variable(l) == l \div 2

\* cdcl/core.rs:69-73
lit_val(l, v) == XorBit(v, l % 2)

\* the value of the variable that makes the literal TRUE
satisfy_literal(l) == l % 2

\* cdcl/env.rs:37-39
decision_level(e) == Len(e.decision_boundaries)

\* cdcl/env.rs:41-46
assign_variable_value(e, var, val, reason) ==
    [e EXCEPT !.decision_reasons[var + 1] = reason,
              !.assignment[var + 1] = val,
              !.variable_levels[var + 1] = decision_level(e)]

\* cdcl/env.rs:61-72
try_assert_literal(e, lit, reason) ==
    IF VecAt(e.assignment, cdcl_variable(lit)) # UNASSIGNED
    THEN [env |-> e,
          ok |-> VecAt(e.assignment, cdcl_variable(lit)) = satisfy_literal(lit)]
    ELSE [env |-> [assign_variable_value(e, cdcl_variable(lit),
                                         satisfy_literal(lit), reason)
                     EXCEPT !.decision_stack = Append(@, lit)],
          ok |-> TRUE]

\* cdcl/env.rs:74-77
literal_value(e, lit) == lit_val(lit, VecAt(e.assignment, cdcl_variable(lit)))

\* cdcl/watchlist.rs:27-29
watch_literal(e, con, lit) == [e EXCEPT !.watchlist[lit + 1] = Append(@, con)]

\* cdcl/constraint/clause.rs:163-167
swap_literals(cl, ix1, ix2) ==
    [cl EXCEPT !.literals[ix1 + 1] = cl.literals[ix2 + 1],
               !.literals[ix2 + 1] = cl.literals[ix1 + 1]]

\* cdcl/constraint/clause.rs:152-161
normalize_watched_literals(cl, false_lit) ==
    IF cl.literals[2] = false_lit
    THEN [cl |-> cl, other_lit |-> cl.literals[1]]
    ELSE [cl |-> swap_literals(cl, 0, 1), other_lit |-> cl.literals[2]]

\* cdcl/constraint/clause.rs:34-39: the positions of (2..n_lits - 1).rev()
\* from ix down; the first whose literal is not FALSE, or -1 when the range
\* is exhausted
RECURSIVE ScanDown(_, _, _)
ScanDown(cl, e, ix) ==
    IF ix < 2 THEN -1
    ELSE IF literal_value(e, cl.literals[ix + 1]) = LIFTED_FALSE
         THEN ScanDown(cl, e, ix - 1)
         ELSE ix

\* cdcl/constraint/clause.rs:46-53
ThenAssert(cl, e, assertion) ==
    [cl |-> cl, env |-> assertion.env, tried |-> TRUE,
     result |-> IF assertion.ok THEN "KeepWatch" ELSE "Conflict"]

\* cdcl/constraint/clause.rs:34-53: ix is the position the loop stops at
ThenScan(cl, e, other_lit, ix) ==
    IF ix >= 2
    THEN [cl |-> swap_literals(cl, 1, ix),
          env |-> watch_literal(e, cl.id, cl.literals[ix + 1]),
          tried |-> FALSE, result |-> "NewWatch"]
    ELSE ThenAssert(cl, e, try_assert_literal(e, other_lit, cl.id))

\* cdcl/constraint/clause.rs:27-53
ThenNormalized(n, e) ==
    IF literal_value(e, n.other_lit) = LIFTED_TRUE
    THEN [cl |-> n.cl, env |-> e, tried |-> FALSE, result |-> "KeepWatch"]
    ELSE ThenScan(n.cl, e, n.other_lit, ScanDown(n.cl, e, (n.cl.lit_count - 1) - 1))

\* cdcl/constraint/clause.rs:25-54.  The field tried of the answer records
\* that the call reached try_assert_literal.
propagate(cl, e, false_lit) ==
    ThenNormalized(normalize_watched_literals(cl, false_lit), e)

(***************************************************************************)
(* Single calls of Clause::propagate.  The clause has at least two         *)
(* literals, false_lit is one of its two watches and is FALSE under the    *)
(* assignment; the clause is in the watch lists of its two watches.  The   *)
(* assigned variables were asserted at level 1 without a reason.           *)
(***************************************************************************)
CdclClauses ==
    {[id |-> 0, lit_count |-> Len(ls), literals |-> ls] :
        ls \in SeqsUpTo(Literals(CdclVars), 2, CdclMaxLits)}

CdclEnv(cl, a) ==
    LET stack == SelectSeq([k \in 1..CdclVars |->
                               IF a[k] = LIFTED_TRUE THEN to_positive_literal(k - 1)
                               ELSE to_negative_literal(k - 1)],
                           LAMBDA l : a[cdcl_variable(l) + 1] # UNASSIGNED)
        empty == [decision_stack |-> stack,
                  decision_boundaries |-> IF stack = <<>> THEN <<>> ELSE <<0>>,
                  assignment |-> a,
                  decision_reasons |-> [k \in 1..CdclVars |-> -1],
                  variable_levels |-> [k \in 1..CdclVars |->
                                          IF a[k] = UNASSIGNED THEN -1 ELSE 1],
                  watchlist |-> [l \in 1..(2 * CdclVars) |-> <<>>]]
    IN watch_literal(watch_literal(empty, cl.id, cl.literals[1]),
                     cl.id, cl.literals[2])

CdclInit ==
    /\ pc = "cdcl"
    /\ next_var = CdclVars
    /\ input = <<>>
    /\ clauses = <<>>
    /\ pp_result = NoResult
    /\ watch_index = <<>>
    /\ env = NoEnv
    /\ next_lit = -1
    /\ last_result = "None"
    /\ enq_log = <<>>
    /\ level = 0
    /\ ret = NoRet
    /\ \E cl \in CdclClauses, a \in [1..CdclVars -> Values] :
          \E false_lit \in {cl.literals[1], cl.literals[2]} :
             /\ literal_value(CdclEnv(cl, a), false_lit) = LIFTED_FALSE
             /\ call = [op |-> "propagate", cl |-> cl, env |-> CdclEnv(cl, a),
                        false_lit |-> false_lit]

\* cdcl/constraint/clause.rs:25-54
CallPropagate ==
    /\ call.op = "propagate" /\ ~ret.done
    /\ LET r == propagate(call.cl, call.env, call.false_lit) IN
       ret' = [done |-> TRUE, result |-> r.result, cl |-> r.cl,
               env |-> r.env, tried |-> r.tried]
    /\ CallFrame

CdclNext == CallPropagate

CdclSpec == CdclInit /\ [][CdclNext]_vars

\* C36: in Clause::propagate of the cdcl engine the search for a replacement
\* watch examines every position 2 .. lit_count-1: whenever the call falls
\* through to the unit/conflict case (try_assert_literal of the other
\* watch), every literal at a position >= 2 is FALSE under the assignment.
C36_FallThroughAllFalse ==
    (call.op = "propagate" /\ ret.done /\ ret.tried) =>
       \A ix \in 2..(call.cl.lit_count - 1) :
          literal_value(call.env, call.cl.literals[ix + 1]) = LIFTED_FALSE

====
